---------------------------- MODULE Spec2Model ----------------------------
(***************************************************************************)
(* Maze_Game: the traversal state machine of game_core (GameState) and the  *)
(* part of the desktop shell that owns it (MazeApp::default, render_ui,      *)
(* update_state, update).                                                   *)
(*                                                                         *)
(* A Rust panic is modelled as the value Panic returned by the operator     *)
(* that panics; the process that panicked is at pc = "panicked" and takes   *)
(* no further step.                                                        *)
(***************************************************************************)
EXTENDS Integers, Sequences, FiniteSets, TLC

VARIABLES
    state,        \* MazeApp.state : GameState  (rooms, current_room, is_finished)
    pc,           \* "running" | "panicked"
    file,         \* the condition of maze.json that MazeApp::default met
    frame_action, \* MazeApp::update: the Option<GameAction> render_ui returned
    last,         \* history: the last operation, its argument, the state before it
    entered_end   \* history: choose_exit has moved the cursor onto an is_end room

vars == <<state, pc, file, frame_action, last, entered_end>>

----------------------------------------------------------------------------
(* Bounds of the model *)

\* longest room list read from maze.json
MaxRooms == 2
\* most exits of a room read from maze.json
MaxExits == 1
\* largest index handed to choose_exit
MaxIndex == 2

----------------------------------------------------------------------------
(* Data model: Room, Exit, MazeFile, GameState *)

Exit(label, destination) == [label |-> label, destination |-> destination]

Room(id, description, exits, is_end) ==
    [id |-> id, description |-> description, exits |-> exits, is_end |-> is_end]

GameState(rooms, current_room, is_finished) ==
    [rooms |-> rooms, current_room |-> current_room, is_finished |-> is_finished]

MazeFile(rooms) == [rooms |-> rooms]

\* the outcome of a panic!/expect failure
Panic == [panic |-> TRUE]

IsPanic(x) == "panic" \in DOMAIN x

\* Result<T, E>
Ok(v) == [tag |-> "Ok", val |-> v]

Err(e) == [tag |-> "Err", err |-> e]

----------------------------------------------------------------------------
(* serde: #[derive(Serialize, Deserialize)] on Exit, Room and MazeFile *)

\* JSON values: strings, booleans, arrays, and objects as the list of their
\* members in document order
JString(s) == [t |-> "string", text |-> s]

JBool(b) == [t |-> "bool", bool |-> b]

JArray(items) == [t |-> "array", items |-> items]

JObject(members) == [t |-> "object", members |-> members]

Member(key, value) == [k |-> key, v |-> value]

\* Serialize: a struct is written as an object, its fields in declaration order
ser_Exit(e) ==
    JObject(<< Member("label", JString(e.label)),
               Member("destination", JString(e.destination)) >>)

ser_Room(r) ==
    JObject(<< Member("id", JString(r.id)),
               Member("description", JString(r.description)),
               Member("exits", JArray([i \in 1..Len(r.exits) |-> ser_Exit(r.exits[i])])),
               Member("is_end", JBool(r.is_end)) >>)

ser_MazeFile(m) ==
    JObject(<< Member("rooms", JArray([i \in 1..Len(m.rooms) |-> ser_Room(m.rooms[i])])) >>)

\* the members of object j named key
Named(j, key) == {i \in 1..Len(j.members) : j.members[i].k = key}

\* the value of the only member of object j named key
FieldValue(j, key) == j.members[CHOOSE i \in Named(j, key) : TRUE].v

AllOk(results) == \A i \in 1..Len(results) : results[i].tag = "Ok"

Values(results) == [i \in 1..Len(results) |-> results[i].val]

de_String(j) == IF j.t = "string" THEN Ok(j.text) ELSE Err("invalid type")

de_bool(j) == IF j.t = "bool" THEN Ok(j.bool) ELSE Err("invalid type")

\* a field without #[serde(default)]: exactly one member of that name
Required(j, key) == Cardinality(Named(j, key)) = 1

\* a field, with or without a default: never two members of that name
NotDuplicated(j, key) == Cardinality(Named(j, key)) <= 1

de_Exit(j) ==
    IF j.t # "object" THEN Err("invalid type")
    ELSE IF ~Required(j, "label") \/ ~Required(j, "destination")
    THEN Err("missing or duplicate field")
    ELSE LET label == de_String(FieldValue(j, "label"))
             destination == de_String(FieldValue(j, "destination"))
         IN  IF label.tag = "Ok" /\ destination.tag = "Ok"
             THEN Ok(Exit(label.val, destination.val))
             ELSE Err("invalid type")

de_Exits(j) ==
    IF j.t # "array" THEN Err("invalid type")
    ELSE LET rs == [i \in 1..Len(j.items) |-> de_Exit(j.items[i])] IN
         IF AllOk(rs) THEN Ok(Values(rs)) ELSE Err("invalid element")

\* de_Room, with is_end never read from the document
de_Room_default_end(j) ==
    IF j.t # "object" THEN Err("invalid type")
    ELSE IF \/ ~Required(j, "id") \/ ~Required(j, "description")
            \/ ~Required(j, "exits") \/ ~NotDuplicated(j, "is_end")
    THEN Err("missing or duplicate field")
    ELSE LET id == de_String(FieldValue(j, "id"))
             description == de_String(FieldValue(j, "description"))
             exits == de_Exits(FieldValue(j, "exits"))
         IN  IF id.tag = "Ok" /\ description.tag = "Ok" /\ exits.tag = "Ok"
             THEN Ok(Room(id.val, description.val, exits.val, FALSE))
             ELSE Err("invalid type")

\* Deserialize for Room: is_end is #[serde(default)], FALSE when absent
de_Room(j) ==
    IF j.t # "object" THEN Err("invalid type")
    ELSE IF \/ ~Required(j, "id") \/ ~Required(j, "description")
            \/ ~Required(j, "exits") \/ ~NotDuplicated(j, "is_end")
    THEN Err("missing or duplicate field")
    ELSE LET id == de_String(FieldValue(j, "id"))
             description == de_String(FieldValue(j, "description"))
             exits == de_Exits(FieldValue(j, "exits"))
             is_end == IF Named(j, "is_end") = {}
                       THEN Ok(FALSE)
                       ELSE de_bool(FieldValue(j, "is_end"))
         IN  IF /\ id.tag = "Ok" /\ description.tag = "Ok"
                /\ exits.tag = "Ok" /\ is_end.tag = "Ok"
             THEN Ok(Room(id.val, description.val, exits.val, is_end.val))
             ELSE Err("invalid type")

de_MazeFile(j) ==
    IF j.t # "object" THEN Err("invalid type")
    ELSE IF ~Required(j, "rooms") THEN Err("missing or duplicate field")
    ELSE LET a == FieldValue(j, "rooms") IN
         IF a.t # "array" THEN Err("invalid type")
         ELSE LET rs == [i \in 1..Len(a.items) |-> de_Room(a.items[i])] IN
              IF AllOk(rs) THEN Ok(MazeFile(Values(rs))) ELSE Err("invalid element")

----------------------------------------------------------------------------
(* Inputs: the mazes a maze.json can hold *)

\* room ids used by the loaded mazes
FileRoomIds == {"a", "b"}

\* exit destinations used by the loaded mazes: an exit dangles when the room
\* list holds no room of that id (<<a -> b>> alone, or <<a -> b, a>>)
FileDestinations == {"a", "b"}

SeqsUpTo(S, n) == UNION {[1..k -> S] : k \in 0..n}

FileExits == {Exit("go", d) : d \in FileDestinations}

FileRooms ==
    {Room(id, "room", ex, e) :
        id \in FileRoomIds, ex \in SeqsUpTo(FileExits, MaxExits), e \in BOOLEAN}

\* every room list a well-formed maze.json can hold, the empty one included
FileMazes == SeqsUpTo(FileRooms, MaxRooms)

\* what MazeApp::default can meet when it looks for maze.json: no file, a
\* file that cannot be opened, one that is not JSON, or one that parses into
\* the MazeFile doc
FileConditions ==
    {[kind |-> k] : k \in {"no_exe_dir", "absent", "unreadable", "malformed"}}
    \cup {[kind |-> "wellformed", doc |-> MazeFile(m)] : m \in FileMazes}

Indices == 0..MaxIndex

----------------------------------------------------------------------------
(* game_core::GameState *)

\* default_rooms, with a way out of the end room
default_rooms_replay ==
    << Room("start",
            "You are in a small stone chamber with one door ahead.",
            << Exit("Go through the door", "middle") >>,
            FALSE),
       Room("middle",
            "You stand in a long hallway. There is a door behind and one ahead.",
            << Exit("Go back", "start"), Exit("Go forward", "end") >>,
            FALSE),
       Room("end",
            "You find yourself in a bright room - the end of the maze!",
            << Exit("Play again", "start") >>,
            TRUE) >>

\* the built-in maze (the dash of the last description is written in ASCII)
default_rooms ==
    << Room("start",
            "You are in a small stone chamber with one door ahead.",
            << Exit("Go through the door", "middle") >>,
            FALSE),
       Room("middle",
            "You stand in a long hallway. There is a door behind and one ahead.",
            << Exit("Go back", "start"), Exit("Go forward", "end") >>,
            FALSE),
       Room("end",
            "You find yourself in a bright room - the end of the maze!",
            << >>,
            TRUE) >>

\* the default maze serialized as a MazeFile document
DefaultDocument == ser_MazeFile(MazeFile(default_rooms))

\* the room objects of the default document
DefaultRoomObjects == FieldValue(DefaultDocument, "rooms").items

\* the MazeFile document whose room objects are rooms
Document(rooms) == JObject(<< Member("rooms", JArray(rooms)) >>)

\* object j without its members named key
Without(j, key) == JObject(SelectSeq(j.members, LAMBDA m : m.k # key))

\* object j without an is_end member that says false
WithoutFalseEnd(j) ==
    JObject(SelectSeq(j.members, LAMBDA m : m # Member("is_end", JBool(FALSE))))

\* object j with its members in the opposite order
Reversed(j) ==
    JObject([i \in 1..Len(j.members) |-> j.members[Len(j.members) + 1 - i]])

\* object j with its is_end member holding a string
WithTextEnd(j) ==
    JObject([i \in 1..Len(j.members) |->
        IF j.members[i].k = "is_end" THEN Member("is_end", JString("no"))
        ELSE j.members[i]])

\* JSON documents a maze.json can hold: the default maze as serialized, the
\* same without the is_end members that say false, without any is_end member,
\* with the members of the rooms in the opposite order, and three documents
\* that are JSON but no MazeFile
JsonDocuments ==
    LET D == DefaultRoomObjects
        N == 1..Len(DefaultRoomObjects)
    IN  { DefaultDocument,
          Document([i \in N |-> WithoutFalseEnd(D[i])]),
          Document([i \in N |-> Without(D[i], "is_end")]),
          Document([i \in N |-> Reversed(D[i])]),
          Document([i \in N |-> Without(D[i], "id")]),
          Document([i \in N |-> WithTextEnd(D[i])]),
          JArray(<< >>) }

\* what MazeApp::default can meet: FileConditions, or a maze.json holding
\* one of the JSON documents
StartConditions ==
    FileConditions \cup {[kind |-> "json", json |-> d] : d \in JsonDocuments}

\* from_rooms, starting at the last room instead of the first
from_rooms_last(rooms) ==
    IF rooms = << >>
    THEN Panic
    ELSE GameState(rooms, rooms[Len(rooms)].id, FALSE)

from_rooms(rooms) ==
    IF rooms = << >>
    THEN Panic
    ELSE GameState(rooms, rooms[1].id, FALSE)

new == from_rooms(default_rooms)

\* serde_json::from_reader on the opened file
from_reader(f) ==
    IF f.kind = "wellformed" THEN Ok(f.doc)
    ELSE IF f.kind = "json" THEN de_MazeFile(f.json)
    ELSE Err("parse")

\* load_from_file, with an empty room list reported as an error
load_from_file_checked(f) ==
    IF f.kind \in {"absent", "unreadable"}
    THEN Err("io")
    ELSE LET parsed == from_reader(f) IN
         IF parsed.tag = "Err"
         THEN parsed
         ELSE IF parsed.val.rooms = << >>
         THEN Err("empty")
         ELSE Ok(from_rooms(parsed.val.rooms))

\* File::open(path)?, from_reader(file)?, Ok(from_rooms(maze_file.rooms))
load_from_file(f) ==
    IF f.kind \in {"absent", "unreadable"}
    THEN Err("io")
    ELSE LET parsed == from_reader(f) IN
         IF parsed.tag = "Err"
         THEN parsed
         ELSE LET s == from_rooms(parsed.val.rooms) IN
              IF IsPanic(s) THEN Panic ELSE Ok(s)

\* positions of the rooms whose id is the cursor
Matches(s) == {k \in 1..Len(s.rooms) : s.rooms[k].id = s.current_room}

\* Min, taking the last position instead of the first
Min_last(S) == CHOOSE m \in S : \A n \in S : n <= m

Min(S) == CHOOSE m \in S : \A n \in S : m <= n

\* iter().find(..).expect("current room exists")
current_room(s) ==
    IF Matches(s) = {} THEN Panic ELSE s.rooms[Min(Matches(s))]

\* get, with the index clamped to the last exit instead of refused
get_clamped(exits, index) ==
    IF exits = << >> THEN [some |-> FALSE]
    ELSE IF index < Len(exits) THEN [some |-> TRUE, val |-> exits[index + 1]]
    ELSE [some |-> TRUE, val |-> exits[Len(exits)]]

\* get, with the index counted from 1
get_one_based(exits, index) ==
    IF 1 <= index /\ index <= Len(exits) THEN [some |-> TRUE, val |-> exits[index]]
    ELSE [some |-> FALSE]

\* exits.get(index): Some(exit) or None; index is a usize, counted from 0
get(exits, index) ==
    IF index < Len(exits) THEN [some |-> TRUE, val |-> exits[index + 1]]
    ELSE [some |-> FALSE]

\* the cursor of s is on a room, and that room is an end room
OnEndRoom(s) == ~IsPanic(current_room(s)) /\ current_room(s).is_end

\* choose_exit, with is_finished assigned the flag instead of raised by it
choose_exit_assign(s, index) ==
    LET room == current_room(s) IN
    IF IsPanic(room)
    THEN Panic
    ELSE LET destination == get(room.exits, index)
             is_end == room.is_end
         IN  IF destination.some
             THEN [s EXCEPT !.current_room = destination.val.destination,
                            !.is_finished = is_end]
             ELSE s

\* choose_exit, with the end flag read after the cursor has moved
choose_exit_late_flag(s, index) ==
    LET room == current_room(s) IN
    IF IsPanic(room)
    THEN Panic
    ELSE LET destination == get(room.exits, index) IN
         IF destination.some
         THEN LET moved == [s EXCEPT !.current_room = destination.val.destination]
              IN  [moved EXCEPT !.is_finished = IF OnEndRoom(moved) THEN TRUE ELSE @]
         ELSE s

\* choose_exit, with the exit taken removed from the room
choose_exit_consume(s, index) ==
    LET room == current_room(s) IN
    IF IsPanic(room)
    THEN Panic
    ELSE LET destination == get(room.exits, index)
             is_end == room.is_end
             k == Min(Matches(s))
         IN  IF destination.some
             THEN [s EXCEPT !.current_room = destination.val.destination,
                            !.is_finished = IF is_end THEN TRUE ELSE @,
                            !.rooms[k].exits =
                                [j \in 1..(Len(@) - 1) |->
                                    IF j <= index THEN @[j] ELSE @[j + 1]]]
             ELSE s

\* choose_exit, refusing an exit whose destination is the id of no room
choose_exit_validating(s, index) ==
    LET room == current_room(s) IN
    IF IsPanic(room)
    THEN Panic
    ELSE LET destination == get(room.exits, index)
             is_end == room.is_end
         IN  IF /\ destination.some
                /\ \E k \in 1..Len(s.rooms) :
                       s.rooms[k].id = destination.val.destination
             THEN [s EXCEPT !.current_room = destination.val.destination,
                            !.is_finished = IF is_end THEN TRUE ELSE @]
             ELSE s

\* choose_exit, with the cursor set to the label of the exit
choose_exit_label(s, index) ==
    LET room == current_room(s) IN
    IF IsPanic(room)
    THEN Panic
    ELSE LET destination == get(room.exits, index)
             is_end == room.is_end
         IN  IF destination.some
             THEN [s EXCEPT !.current_room = destination.val.label,
                            !.is_finished = IF is_end THEN TRUE ELSE @]
             ELSE s

\* choose_exit, doing nothing when the cursor is on no room
choose_exit_lenient(s, index) ==
    LET room == current_room(s) IN
    IF IsPanic(room)
    THEN s
    ELSE LET destination == get(room.exits, index)
             is_end == room.is_end
         IN  IF destination.some
             THEN [s EXCEPT !.current_room = destination.val.destination,
                            !.is_finished = IF is_end THEN TRUE ELSE @]
             ELSE s

choose_exit(s, index) ==
    LET room == current_room(s) IN
    IF IsPanic(room)
    THEN Panic
    ELSE LET destination == get(room.exits, index)
             is_end == room.is_end
         IN  IF destination.some
             THEN [s EXCEPT !.current_room = destination.val.destination,
                            !.is_finished = IF is_end THEN TRUE ELSE @]
             ELSE s

----------------------------------------------------------------------------
(* desktop::MazeApp *)

Restart == [kind |-> "Restart"]

ChooseExit(i) == [kind |-> "ChooseExit", index |-> i]

GameActions == {Restart} \cup {ChooseExit(i) : i \in Indices}

\* Option<GameAction>::None
NoAction == [kind |-> "None"]

\* the positions, counted from 0 in the order drawn, at which the user can
\* click in one frame; a click counts only where render_ui draws a button
Clicks == SUBSET Indices

\* the last of the exit buttons drawn for room that is clicked, if any
LastClicked(room, clicks) ==
    LET hit == {i \in 0..(Len(room.exits) - 1) : i \in clicks} IN
    IF hit = {} THEN NoAction
    ELSE ChooseExit(CHOOSE i \in hit : \A j \in hit : j <= i)

\* render_ui, drawing the exit buttons in an end room as well
render_ui_exits_in_end(s, clicks) ==
    LET room == current_room(s) IN
    IF IsPanic(room)
    THEN Panic
    ELSE IF room.is_end /\ Len(room.exits) \in clicks   \* Restart drawn last
    THEN Restart
    ELSE LastClicked(room, clicks)

\* render_ui, numbering the exit buttons from 1
render_ui_from_one(s, clicks) ==
    LET room == current_room(s) IN
    IF IsPanic(room)
    THEN Panic
    ELSE IF room.is_end
    THEN IF 0 \in clicks THEN Restart ELSE NoAction
    ELSE LET a == LastClicked(room, clicks) IN
         IF a = NoAction THEN a ELSE ChooseExit(a.index + 1)

\* MazeApp::render_ui: the action collected in one frame, or Panic
render_ui(s, clicks) ==
    LET room == current_room(s) IN
    IF IsPanic(room)
    THEN Panic
    ELSE IF room.is_end
    THEN IF 0 \in clicks THEN Restart ELSE NoAction
    ELSE LastClicked(room, clicks)

\* impl Default for MazeApp: the state MazeApp starts with, or Panic
MazeApp_default(f) ==
    IF f.kind = "no_exe_dir"
    THEN new
    ELSE IF f.kind = "absent"             \* maze_path.exists() is false
    THEN new
    ELSE LET r == load_from_file(f) IN
         IF IsPanic(r) THEN Panic
         ELSE IF r.tag = "Ok" THEN r.val
         ELSE new                         \* eprintln!, then the default maze

\* update_state, with Restart rebuilding the maze that is loaded
update_state_same_maze(s, action) ==
    IF action.kind = "Restart" THEN from_rooms(s.rooms) ELSE choose_exit(s, action.index)

update_state(s, action) ==
    IF action.kind = "Restart" THEN new ELSE choose_exit(s, action.index)

----------------------------------------------------------------------------
(* The state machine *)

\* the state shown for a process that panicked before it had a GameState
NoState == GameState(<< >>, "", FALSE)

\* choose_exit(index) on s takes an exit: the current room exists and has one there
TakesExit(s, index) ==
    /\ ~IsPanic(current_room(s))
    /\ get(current_room(s).exits, index).some


Init ==
    \E f \in StartConditions :
        LET s == MazeApp_default(f) IN
        /\ file = f
        /\ state = IF IsPanic(s) THEN NoState ELSE s
        /\ pc = IF IsPanic(s) THEN "panicked" ELSE "running"
        /\ frame_action = NoAction
        /\ last = [op |-> "startup"]
        /\ entered_end = FALSE

\* MazeApp::update_state(GameAction::ChooseExit(i))
DoChooseExit(i) ==
    LET s == update_state(state, ChooseExit(i)) IN
    /\ pc = "running"
    /\ last' = [op |-> "choose_exit", index |-> i, pre |-> state]
    /\ IF IsPanic(s)
       THEN /\ pc' = "panicked"
            /\ UNCHANGED <<state, entered_end>>
       ELSE /\ pc' = "running"
            /\ state' = s
            /\ entered_end' =
                   (entered_end \/ (TakesExit(state, i) /\ OnEndRoom(s)))
    /\ frame_action' = NoAction
    /\ UNCHANGED file

\* MazeApp::update_state(GameAction::Restart)
DoRestart ==
    /\ pc = "running"
    /\ state' = update_state(state, Restart)
    /\ pc' = "running"
    /\ last' = [op |-> "restart", pre |-> state]
    /\ entered_end' = FALSE
    /\ frame_action' = NoAction
    /\ UNCHANGED file

Next ==
    \/ \E i \in Indices : DoChooseExit(i)
    \/ DoRestart

\* the core driven through its API: any choose_exit index, restart at any time
Spec == Init /\ [][Next]_vars

\* MazeApp::update, first half: render_ui collects the action of the frame
Render ==
    /\ pc = "running"
    /\ frame_action = NoAction
    /\ \E clicks \in Clicks :
          LET a == render_ui(state, clicks) IN
          IF IsPanic(a)
          THEN /\ pc' = "panicked"
               /\ last' = [op |-> "render_ui", pre |-> state]
               /\ UNCHANGED <<state, file, frame_action, entered_end>>
          ELSE /\ frame_action' = a
               /\ UNCHANGED <<state, pc, file, last, entered_end>>

\* MazeApp::update, second half: update_state on the action collected
Update ==
    /\ frame_action # NoAction
    /\ IF frame_action.kind = "Restart"
       THEN DoRestart
       ELSE DoChooseExit(frame_action.index)

ShellNext == Render \/ Update

\* the core driven only through the desktop shell
ShellSpec == Init /\ [][ShellNext]_vars

----------------------------------------------------------------------------
(* Properties *)

\* the room occupied before the last operation
PreRoom == current_room(last.pre)

\* the last operation was choose_exit on a state whose current room exists
ChoseFromRoom == last.op = "choose_exit" /\ ~IsPanic(PreRoom)

\* C1: the state built by from_rooms(rooms), rooms not empty, has the rooms it
\* was given, current_room = the id of the first of them and is_finished =
\* FALSE, and current_room() on it returns the first room, also when a later
\* room has the same id.  from_rooms builds the state at startup (from the
\* rooms of a well-formed maze.json, else from the default rooms) and at
\* restart.
C1_FromRoomsStartsAtFirst ==
    (pc = "running" /\ last.op \in {"startup", "restart"}) =>
        /\ state.rooms # << >>
        /\ (last.op = "startup" /\ file.kind = "wellformed"
                => state.rooms = file.doc.rooms)
        /\ state.current_room = state.rooms[1].id
        /\ state.is_finished = FALSE
        /\ current_room(state) = state.rooms[1]

\* C1 witness: a state just built from two different rooms of the same id
C1_Witness ==
    /\ pc = "running"
    /\ last.op = "startup"
    /\ file.kind = "wellformed"
    /\ Len(state.rooms) = 2
    /\ state.rooms[1].id = state.rooms[2].id
    /\ state.rooms[1] # state.rooms[2]

\* C2: choose_exit(i) with i outside the exits of an existing current room
\* changes nothing (rooms, current_room, is_finished) and does not fail.
C2_OutOfRangeIsNoOp ==
    (ChoseFromRoom /\ last.index >= Len(PreRoom.exits)) =>
        /\ pc = "running"
        /\ state = last.pre

\* C2 witness: an out-of-range choose_exit on a room that has exits
C2_Witness ==
    /\ ChoseFromRoom
    /\ PreRoom.exits # << >>
    /\ last.index >= Len(PreRoom.exits)

\* C3: once is_finished is TRUE, no step other than a restart makes it FALSE:
\* every choose_exit step (any index, any maze) keeps it TRUE.
C3_FinishedMonotonic ==
    [][(state.is_finished /\ ~state'.is_finished) => last'.op = "restart"]_vars

\* C3 witness: choose_exit took an exit out of a room that is not an end room
\* while is_finished was already TRUE
C3_Witness ==
    /\ ChoseFromRoom
    /\ last.pre.is_finished
    /\ ~PreRoom.is_end
    /\ last.index < Len(PreRoom.exits)
    /\ state.is_finished

\* C4: whenever choose_exit has moved the cursor onto a room with is_end =
\* TRUE, is_finished is TRUE.
C4_EnteredEndImpliesFinished == entered_end => state.is_finished

\* C5: Scenario B: in the default maze, choose_exit(1) from "middle" gives
\* current_room = "end" and is_finished = TRUE.
C5_ScenarioB ==
    (/\ last.op = "choose_exit"
     /\ last.pre.rooms = default_rooms
     /\ last.pre.current_room = "middle"
     /\ last.index = 1)
        => (state.current_room = "end" /\ state.is_finished = TRUE)

\* C6: Scenarios A and C: in the default maze, choose_exit(0) from the fresh
\* state gives current_room = "middle", and choose_exit(0) from "middle" gives
\* current_room = "start", both with is_finished = FALSE.
C6_ScenariosAC ==
    /\ (/\ last.op = "choose_exit"
        /\ last.pre = GameState(default_rooms, "start", FALSE)
        /\ last.index = 0)
           => (pc = "running" /\ state.current_room = "middle"
                              /\ state.is_finished = FALSE)
    /\ (/\ last.op = "choose_exit"
        /\ last.pre = GameState(default_rooms, "middle", FALSE)
        /\ last.index = 0)
           => (pc = "running" /\ state.current_room = "start"
                              /\ state.is_finished = FALSE)

\* C6 witness: back at "start" by choose_exit(0) from "middle", which was
\* reached by choose_exit(0) from "start"
C6_Witness ==
    /\ last.op = "choose_exit"
    /\ last.pre = GameState(default_rooms, "middle", FALSE)
    /\ last.index = 0
    /\ state.current_room = "start"

\* C7: choose_exit(i) with i within the exits of the existing current room R
\* sets current_room to R.exits[i].destination and is_finished to
\* (is_finished before, or R.is_end): the flag of the room left, not of the
\* room entered.
C7_InRangeTransition ==
    (ChoseFromRoom /\ last.index < Len(PreRoom.exits)) =>
        /\ pc = "running"
        /\ state.current_room = PreRoom.exits[last.index + 1].destination
        /\ state.is_finished = (last.pre.is_finished \/ PreRoom.is_end)

\* C7 witness: an exit taken from a room that is not an end room into a room
\* that is one, is_finished staying FALSE
C7_Witness ==
    /\ ChoseFromRoom
    /\ last.index < Len(PreRoom.exits)
    /\ ~PreRoom.is_end
    /\ ~last.pre.is_finished
    /\ OnEndRoom(state)
    /\ ~state.is_finished

\* C8: choose_exit never changes rooms, whatever the index; with C1 (the
\* state is built with the rooms given) rooms is, in every state, a room list
\* that was passed to from_rooms.
C8_RoomsImmutable ==
    /\ last.op = "choose_exit" => state.rooms = last.pre.rooms
    /\ pc = "running" =>
          \/ state.rooms = default_rooms
          \/ file.kind = "wellformed" /\ state.rooms = file.doc.rooms
          \/ /\ file.kind = "json"
             /\ de_MazeFile(file.json).tag = "Ok"
             /\ state.rooms = de_MazeFile(file.json).val.rooms

\* C8 witness: an exit was taken in a maze read from maze.json
C8_Witness ==
    /\ ChoseFromRoom
    /\ last.index < Len(PreRoom.exits)
    /\ state.rooms # default_rooms
    /\ state.current_room # last.pre.current_room

\* C9: a restart leaves exactly the fresh default-maze state: the three
\* built-in rooms, current_room = "start", is_finished = FALSE.
C9_RestartIsFreshDefault ==
    last.op = "restart" =>
        /\ pc = "running"
        /\ state = GameState(default_rooms, "start", FALSE)

\* C9 witness: a restart from a finished state of a maze read from maze.json
C9_Witness ==
    /\ last.op = "restart"
    /\ last.pre.rooms # default_rooms
    /\ last.pre.is_finished
    /\ last.pre.current_room # last.pre.rooms[1].id

\* the cursor of s is on a room of s
ValidState(s) == s.rooms # << >> /\ ~IsPanic(current_room(s))

\* C10: startup never aborts because of maze.json: whatever its condition,
\* startup ends with a valid state, and with the fresh default-maze state when
\* the file is absent or loading it fails.
C10_StartupNeverAborts ==
    last.op = "startup" =>
        /\ pc = "running"
        /\ ValidState(state)
        /\ (file.kind \in {"no_exe_dir", "absent", "unreadable", "malformed"}
               => state = GameState(default_rooms, "start", FALSE))

\* C11: from_rooms on an empty room list panics and builds no state, so a
\* well-formed maze.json whose room list is empty makes load_from_file panic
\* too: no error value comes back, the fall-back to the default maze is not
\* taken and the process ends at startup.
C11_EmptyMazePanics ==
    (last.op = "startup" /\ file.kind = "wellformed" /\ file.doc.rooms = << >>) =>
        /\ pc = "panicked"
        /\ state = NoState

\* C11 witness: startup has panicked on a well-formed file with no rooms
C11_Witness ==
    /\ last.op = "startup"
    /\ file.kind = "wellformed"
    /\ file.doc.rooms = << >>
    /\ pc = "panicked"

\* id is the id of some room of rooms
IsRoomId(rooms, id) == \E k \in 1..Len(rooms) : rooms[k].id = id

\* C12: choose_exit on an in-range exit whose destination is the id of no room
\* succeeds and sets current_room to that destination; only the next
\* current_room() lookup fails.
C12_DanglingExitIsFollowed ==
    (/\ ChoseFromRoom
     /\ last.index < Len(PreRoom.exits)
     /\ ~IsRoomId(last.pre.rooms, PreRoom.exits[last.index + 1].destination)) =>
        /\ pc = "running"
        /\ state.current_room = PreRoom.exits[last.index + 1].destination
        /\ IsPanic(current_room(state))

\* C12 witness: a dangling exit has just been followed
C12_Witness ==
    /\ ChoseFromRoom
    /\ last.index < Len(PreRoom.exits)
    /\ ~IsRoomId(state.rooms, state.current_room)
    /\ pc = "running"

\* every exit of every room of rooms leads to a room of rooms
NoDanglingExit(rooms) ==
    \A k \in 1..Len(rooms) : \A e \in 1..Len(rooms[k].exits) :
        IsRoomId(rooms, rooms[k].exits[e].destination)

\* C13: in a maze without dangling exits (the default maze is one) the cursor
\* is the id of some room after any choose_exit and restart, so no
\* current_room() lookup fails.
C13_CursorValid ==
    (state.rooms # << >> /\ NoDanglingExit(state.rooms)) =>
        /\ pc = "running"
        /\ IsRoomId(state.rooms, state.current_room)

\* C13 witness: an exit has been taken in a loaded maze without dangling exits
C13_Witness ==
    /\ ChoseFromRoom
    /\ last.index < Len(PreRoom.exits)
    /\ state.rooms # default_rooms
    /\ NoDanglingExit(state.rooms)
    /\ state.current_room # last.pre.current_room

\* position k holds the first room of s whose id is the cursor of s
IsFirstMatch(s, k) ==
    /\ k \in 1..Len(s.rooms)
    /\ s.rooms[k].id = s.current_room
    /\ \A j \in 1..(k - 1) : s.rooms[j].id # s.current_room

\* C16: with duplicate ids the current room is the first room of that id in
\* sequence order: choose_exit takes the exits and the end flag of that room,
\* never those of a later room of the same id.
C16_FirstMatchWins ==
    /\ \A k \in 1..Len(state.rooms) :
          (pc = "running" /\ IsFirstMatch(state, k))
              => current_room(state) = state.rooms[k]
    /\ last.op = "choose_exit" =>
          \A k \in 1..Len(last.pre.rooms) :
              IsFirstMatch(last.pre, k) =>
                  LET R == last.pre.rooms[k] IN
                  /\ pc = "running"
                  /\ IF last.index < Len(R.exits)
                     THEN /\ state.current_room = R.exits[last.index + 1].destination
                          /\ state.is_finished = (last.pre.is_finished \/ R.is_end)
                     ELSE state = last.pre

\* C16 witness: the index chosen is one the first room of the cursor's id
\* does not have and a later room of that id has
C16_Witness ==
    /\ ChoseFromRoom
    /\ last.index >= Len(PreRoom.exits)
    /\ \E k \in 1..Len(last.pre.rooms) :
          /\ last.pre.rooms[k].id = last.pre.current_room
          /\ last.index < Len(last.pre.rooms[k].exits)
    /\ state = last.pre

\* C17: in the default maze is_finished is FALSE in every state, and with the
\* cursor on "end" every choose_exit(i) leaves the state as it is.
C17_DefaultMazeNeverFinished ==
    /\ state.rooms = default_rooms => state.is_finished = FALSE
    /\ (/\ last.op = "choose_exit"
        /\ last.pre.rooms = default_rooms
        /\ last.pre.current_room = "end") =>
           (pc = "running" /\ state = last.pre)

\* C17 witness: choose_exit was called with the cursor on "end"
C17_Witness ==
    /\ last.op = "choose_exit"
    /\ last.pre.rooms = default_rooms
    /\ last.pre.current_room = "end"
    /\ state.current_room = "end"

\* C19: with the cursor on no room, choose_exit(i) panics for every i, in
\* range of anything or not, and leaves the cursor where it is.
C19_DanglingCursorIsFatal ==
    (last.op = "choose_exit" /\ ~IsRoomId(last.pre.rooms, last.pre.current_room)) =>
        /\ pc = "panicked"
        /\ state = last.pre

\* C19 witness: choose_exit with the largest index has panicked on a dangling
\* cursor
C19_Witness ==
    /\ last.op = "choose_exit"
    /\ ~IsRoomId(last.pre.rooms, last.pre.current_room)
    /\ last.index = MaxIndex
    /\ pc = "panicked"

\* C15: the shell only produces valid intents: ChooseExit(i) is returned by
\* render_ui, and applied by update_state, only with the cursor on a room
\* that is not an end room and with 0 <= i < the number of its exits; Restart
\* only with the cursor on an end room.
C15_ShellIntentsValid ==
    /\ frame_action.kind = "ChooseExit" =>
          /\ ~IsPanic(current_room(state))
          /\ ~current_room(state).is_end
          /\ 0 <= frame_action.index
          /\ frame_action.index < Len(current_room(state).exits)
    /\ frame_action.kind = "Restart" => OnEndRoom(state)
    /\ last.op = "choose_exit" =>
          /\ ~IsPanic(PreRoom)
          /\ ~PreRoom.is_end
          /\ 0 <= last.index
          /\ last.index < Len(PreRoom.exits)
    /\ last.op = "restart" => OnEndRoom(last.pre)

\* C15 witness: after a choose_exit applied by the shell, render_ui has
\* returned ChooseExit for the second exit button of a room
C15_Witness ==
    /\ frame_action.kind = "ChooseExit"
    /\ frame_action.index = 1
    /\ last.op = "choose_exit"

\* C18: driven through the shell, is_finished is FALSE in every state, for
\* every maze loaded.
C18_ShellNeverFinished == state.is_finished = FALSE

\* C18 witness: the shell has restarted from an end room that has exits, in a
\* maze read from maze.json
C18_Witness ==
    /\ last.op = "restart"
    /\ last.pre.rooms # default_rooms
    /\ OnEndRoom(last.pre)
    /\ current_room(last.pre).exits # << >>

\* C14: round trip: the default maze serialized as a MazeFile document and
\* loaded back by load_from_file gives the state from_rooms(default_rooms())
\* gives: the same rooms (ids, descriptions, exits in order, end flags), the
\* same current_room and is_finished = FALSE.
C14_RoundTrip ==
    (/\ last.op = "startup"
     /\ file.kind = "json"
     /\ file.json = ser_MazeFile(MazeFile(default_rooms))) =>
        /\ pc = "running"
        /\ state.rooms = default_rooms
        /\ state.current_room = "start"
        /\ state.is_finished = FALSE
        /\ state = from_rooms(default_rooms)

\* C14 witness: startup has loaded the serialized default maze, an object
\* whose rooms carry their four members
C14_Witness ==
    /\ last.op = "startup"
    /\ file.kind = "json"
    /\ file.json.t = "object"
    /\ \E i \in Named(file.json, "rooms") :
          LET rooms == file.json.members[i].v IN
          /\ rooms.t = "array"
          /\ Len(rooms.items) = 3
          /\ Len(rooms.items[3].members) = 4
          /\ rooms.items[3].members[4] = Member("is_end", JBool(TRUE))
          /\ rooms.items[1].members[1] = Member("id", JString("start"))
    /\ state.rooms[3].is_end

=============================================================================
